---- MODULE Spec2Model ----
(***************************************************************************)
(* State-machine model of the Reddit cog (bot/cogs/reddit.py): the token   *)
(* task (get_tokens, refresh_access_token), fetch_posts with its bounded   *)
(* retries, the new-post poller with its probe gate and watermark, the     *)
(* weekly digest with its pin maintenance, and the on-demand commands.     *)
(* Every action is one run of a coroutine from the await it resumes from   *)
(* to the next await it suspends on (the event loop is single threaded).   *)
(***************************************************************************)
EXTENDS Integers, Sequences, FiniteSets, TLC

(***************************************************************************)
(* Bounds of the model.                                                    *)
(***************************************************************************)
\* number of distinct posts the platform may list for a topic
NumPosts == 3
\* number of distinct content-length values a probe may report
NumProbes == 2
\* number of access tokens the platform hands out before refreshes stop
MaxTokens == 2
\* number of weekly digest cycles
MaxWeeks == 1
\* number of messages that may be pinned in the channel at start-up
MaxOldPins == 6
\* the last day of the instants the digest clock may show
MaxDay == 7

(***************************************************************************)
(* Program constants.                                                      *)
(***************************************************************************)
MAX_FETCH_RETRIES == 3
\* asyncio.sleep(3) between attempts of fetch_posts
RETRY_SLEEP == 3
\* "if not 25 >= amount > 0"
MAX_AMOUNT == 25
\* amount=5 in send_top_posts
TOP_AMOUNT == 5
\* "while len(pins) >= 5"
PIN_LIMIT == 5
\* int(data["id"], 36)
RADIX == 36
\* ordinal of the oldest post of the model's universe: "y", then "z", "10", ...
FirstOrd == 34

\* RedditConfig.subreddits, the ordered list of monitored topics
subreddits == <<"r/Python", "r/learnpython">>

\* None, where a string is expected and where an integer is expected
None == "None"
NoInt == -1
\* an attribute __init__ never assigned: reading it raises AttributeError
Unset == 0

(***************************************************************************)
(* Base-36 ids.  An id is a sequence of one-character strings.             *)
(***************************************************************************)
Digits == <<"0", "1", "2", "3", "4", "5", "6", "7", "8", "9",
            "a", "b", "c", "d", "e", "f", "g", "h", "i", "j", "k", "l", "m",
            "n", "o", "p", "q", "r", "s", "t", "u", "v", "w", "x", "y", "z">>

DigitVal(c) == (CHOOSE i \in 1..RADIX : Digits[i] = c) - 1

RECURSIVE Int36Wrong(_)
Int36Wrong(s) ==
    IF s = <<>> THEN 0
    ELSE DigitVal(s[1]) + RADIX * Int36Wrong(Tail(s))

\* int(s, 36): the most significant digit comes first
RECURSIVE Int36(_)
Int36(s) ==
    IF s = <<>> THEN 0
    ELSE Int36(SubSeq(s, 1, Len(s) - 1)) * RADIX + DigitVal(s[Len(s)])

\* the id the platform assigns to the post of ordinal n (n > 0)
RECURSIVE ToBase36(_)
ToBase36(n) ==
    IF n < RADIX THEN <<Digits[n + 1]>>
    ELSE Append(ToBase36(n \div RADIX), Digits[(n % RADIX) + 1])

PostOrds == FirstOrd .. (FirstOrd + NumPosts - 1)
PostIds == {ToBase36(n) : n \in PostOrds}

\* the listings the platform may deliver: ids in strictly descending ordinal
\* order (most recent first), possibly none
RECURSIVE Descending(_)
Descending(S) ==
    IF S = {} THEN <<>>
    ELSE LET m == CHOOSE x \in S : \A y \in S : y <= x
         IN <<ToBase36(m)>> \o Descending(S \ {m})

Pages == {Descending(S) : S \in SUBSET PostOrds}
ProbeVals == 1..NumProbes

Range(s) == {s[k] : k \in 1..Len(s)}

\* posts[:amount] for amount > 0
Slice(posts, amount) ==
    IF Len(posts) <= amount THEN posts ELSE SubSeq(posts, 1, amount)


\* self.prev_lengths[subreddit] = ..., self.last_ids[subreddit] = ...
DictPutStale(d, k, v) ==
    [x \in (DOMAIN d) \cup {subreddits[1]} |->
        IF x = subreddits[1] THEN v ELSE d[x]]

DictPut(d, k, v) == [x \in (DOMAIN d) \cup {k} |-> IF x = k THEN v ELSE d[x]]

\* self.prev_lengths.get(subreddit, None)
DictGet(d, k) == IF k \in DOMAIN d THEN d[k] ELSE NoInt

EmptyDict == [x \in {} |-> NoInt]

(***************************************************************************)
(* fetch_posts.  A call in progress is a record: the attempt it is in, the *)
(* seconds it has slept so far, and the times (in slept seconds) at which  *)
(* it issued its GET requests.                                             *)
(***************************************************************************)
NoFetch == [st |-> "idle", amount |-> 0, attempt |-> 0, slept |-> 0, reqAt |-> <<>>]

AmountOKLoose(amount) == amount > 0

\* "if not 25 >= amount > 0: raise ValueError"
AmountOK(amount) == MAX_AMOUNT >= amount /\ amount > 0

NewFetch(amount) == [NoFetch EXCEPT !.amount = amount]

\* one pass of "for _ in range(MAX_FETCH_RETRIES)" up to the awaited GET
FetchIssue(f) ==
    [f EXCEPT !.st = "get", !.attempt = @ + 1, !.reqAt = Append(@, f.slept)]

\* a response that is not 200 + JSON: "await asyncio.sleep(3)"
FetchFailed(f) == [f EXCEPT !.st = "sleep"]

FetchSlept(f) == [f EXCEPT !.slept = @ + RETRY_SLEEP]

FetchMoreOften(f) == f.attempt <= MAX_FETCH_RETRIES

\* whether range(MAX_FETCH_RETRIES) has another pass
FetchMore(f) == f.attempt < MAX_FETCH_RETRIES

\* the responses a GET may get: a failure, or 200 + JSON with a listing
Failure == [ok |-> FALSE, posts |-> <<>>]
Responses(pages) == {Failure} \cup {[ok |-> TRUE, posts |-> p] : p \in pages}

(***************************************************************************)
(* The walk of poll_new_posts over a fetched page.                         *)
(***************************************************************************)
\* "if int_id <= self.last_ids[subreddit]: break", else new_posts.append
KnownStrict(int_id, W) == int_id < W

\* "if int_id <= self.last_ids[subreddit]: break"
Known(int_id, W) == int_id <= W

\* the loop "for post in posts": new_posts.append until the first known post
RECURSIVE NewPosts(_, _)
NewPosts(posts, W) ==
    IF posts = <<>> THEN <<>>
    ELSE IF Known(Int36(posts[1]), W) THEN <<>>
    ELSE <<posts[1]>> \o NewPosts(Tail(posts), W)

CollectAlways(posts, ids, subreddit) == NewPosts(posts, DictGet(ids, subreddit))

\* "if subreddit in self.last_ids": only then is the page walked
Collect(posts, ids, subreddit) ==
    IF subreddit \in DOMAIN ids THEN NewPosts(posts, ids[subreddit]) ELSE <<>>

\* "int(posts[0]["data"]["id"], 36)", the watermark a non-empty page sets
WatermarkOldest(posts) == Int36(posts[Len(posts)])

Watermark(posts) == Int36(posts[1])

SameLengthNever(content_length, lengths, subreddit) == content_length = NoInt

\* "if content_length == self.prev_lengths.get(subreddit, None): continue"
SameLength(content_length, lengths, subreddit) ==
    content_length = DictGet(lengths, subreddit)

\* the ordinal of a post of the model's universe, by the platform's numbering
OrdOf(id) == CHOOSE n \in PostOrds : ToBase36(n) = id

VARIABLES
    reddit_channel,   \* self.reddit_channel
    prev_lengths,     \* self.prev_lengths
    last_ids,         \* self.last_ids
    headers,          \* self.headers: Unset, or the number of the token in it
    access_token,     \* self.access_token: Unset, or the number of the token
    refresh_token,    \* self.refresh_token: Unset, or 1
    cog,              \* whether the cog is loaded in the bot
    init,             \* init_reddit_polling
    tok,              \* the refresh_access_token task (with its before_loop)
    poll,             \* the poll_new_posts task
    dig,              \* the poll_top_weekly_posts task
    cmd,              \* an on-demand command (top, daily, weekly)
    call,             \* a direct call of fetch_posts
    pins,             \* the pinned messages of the channel, newest first
    req,              \* observation: the request the last step issued
    cyc,              \* observation: the poller's work on the current topic
    sent,             \* observation: ids dispatched so far, per topic
    probed            \* observation: per topic, the last probe and what it led to

vars == <<reddit_channel, prev_lengths, last_ids, headers, access_token,
          refresh_token, cog, init, tok, poll, dig, cmd, call, pins,
          req, cyc, sent, probed>>

credVars == <<headers, access_token, refresh_token>>
topicVars == <<prev_lengths, last_ids>>
pollObs == <<cyc, sent, probed>>

Topics == Range(subreddits)

\* the token task; age: the seconds since the access token in use was
\* issued, slept: the seconds of the current sleep that are over
NoTask == [pc |-> "none", err |-> None, age |-> 0, slept |-> 0]
NoPoll == [pc |-> "none", i |-> 0, f |-> NoFetch, new_posts |-> <<>>, err |-> None]
\* cyc: the topic being processed, the probe read and the length recorded
\* before it, the watermark before the cycle, the page fetched (once walked),
\* the ids delivered to the sink in order, and whether line 243 was reached
NoCyc == [topic |-> None, probe |-> NoInt, recorded |-> NoInt, W |-> NoInt,
          walked |-> FALSE, page |-> <<>>, sent |-> <<>>, done |-> FALSE]
NoProbe == [probe |-> NoInt, called |-> FALSE]


(***************************************************************************)
(* __init__ and init_reddit_polling.                                       *)
(***************************************************************************)
\* the digest task: its topic, its fetch_posts call, the message it sent
\* (0: none), whether that is a digest or the "no posts" notice, its local
\* list "pins" with the length it had when listed and the unpins done
\* since, the number of times it has woken, and the instant "now" it last
\* read with the delay until_monday computed from it
NoDig == [pc |-> "none", i |-> 0, f |-> NoFetch, message |-> 0, kind |-> None,
          local |-> <<>>, had |-> 0, unpins |-> 0, week |-> 0,
          now |-> 0, until_monday |-> 0, err |-> None]
NoCmd == [pc |-> "idle", f |-> NoFetch, err |-> None]
\* a direct call: its amount, the responses received, whether the last one
\* was a success and the listing it carried, and the value returned
NoCall == [pc |-> "idle", amount |-> 0, f |-> NoFetch, responses |-> 0,
           success |-> FALSE, page |-> <<>>, result |-> <<>>, err |-> None]

\* the state __init__ leaves: no headers, no token, empty maps, no task
Constructed ==
    /\ reddit_channel = None
    /\ prev_lengths = EmptyDict
    /\ last_ids = EmptyDict
    /\ headers = Unset
    /\ access_token = Unset
    /\ refresh_token = Unset
    /\ cog = TRUE
    /\ init = "wait"
    /\ tok = NoTask
    /\ poll = NoPoll
    /\ dig = NoDig
    /\ cmd = NoCmd
    /\ call = NoCall
    /\ req = "none"
    /\ cyc = NoCyc
    /\ sent = [t \in Topics |-> {}]
    /\ probed = [t \in Topics |-> NoProbe]

\* wait_until_ready, fetch_channel, refresh_access_token.start() (which only
\* creates the task: get_tokens runs up to its awaited POST), then the two
\* polling tasks: poll_new_posts up to its first sleep, poll_top_weekly_posts
\* up to the top of its loop
InitRedditPolling(channel) ==
    /\ init = "wait"
    /\ init' = "done"
    /\ reddit_channel' = channel
    /\ tok' = [tok EXCEPT !.pc = "get_tokens"]
    /\ req' = "token_post"
    /\ IF channel # None
       THEN /\ poll' = [poll EXCEPT !.pc = "sleep"]
            /\ dig' = [dig EXCEPT !.pc = "top"]
       ELSE UNCHANGED <<poll, dig>>
    /\ UNCHANGED <<topicVars, credVars, cog, cmd, call, pins, pollObs>>

(***************************************************************************)
(* The token task: get_tokens (before_loop), then refresh_access_token     *)
(* every 0.99 hours.                                                       *)
(***************************************************************************)
\* the response to get_tokens' POST.  On success the tokens and the headers
\* are stored and the loop body runs at once, up to its awaited POST.  On a
\* failure the cog is removed, get_tokens returns and the loop body runs:
\* it reads self.refresh_token, which was never assigned.
GetTokensResponse(ok) ==
    /\ tok.pc = "get_tokens"
    /\ IF ok
       THEN /\ access_token' = 1
            /\ refresh_token' = 1
            /\ headers' = 1
            /\ tok' = [tok EXCEPT !.pc = "refresh", !.age = 0]
            /\ req' = "refresh_post"
            /\ cog' = cog
       ELSE /\ cog' = FALSE
            /\ tok' = [tok EXCEPT !.pc = "crashed", !.err = "AttributeError"]
            /\ req' = "none"
            /\ UNCHANGED credVars
    /\ UNCHANGED <<reddit_channel, topicVars, init, poll, dig, cmd, call, pins,
                   pollObs>>

\* the response to refresh_access_token's POST: JSON with a new access token;
\* JSON without one (KeyError ends the task); or no JSON (ContentTypeError,
\* an aiohttp.ClientError, after which the task loop backs off and retries)
RefreshResponse(outcome) ==
    /\ tok.pc = "refresh"
    /\ req' = "none"
    /\ CASE outcome = "ok" ->
              /\ access_token' = access_token + 1
              /\ headers' = access_token + 1
              /\ tok' = [tok EXCEPT !.pc = "sleep", !.age = 0, !.slept = 0]
              /\ UNCHANGED refresh_token
         [] outcome = "KeyError" ->
              /\ tok' = [tok EXCEPT !.pc = "crashed", !.err = "KeyError"]
              /\ UNCHANGED credVars
         [] outcome = "ContentTypeError" ->
              /\ tok' = [tok EXCEPT !.pc = "backoff"]
              /\ UNCHANGED credVars
    /\ UNCHANGED <<reddit_channel, topicVars, cog, init, poll, dig, cmd, call,
                   pins, pollObs>>

\* the sleep of the task loop, or its backoff after a failed pass, is over:
\* the next refresh_access_token
RefreshWake ==
    /\ tok.pc \in {"sleep", "backoff"}
    /\ access_token < MaxTokens
    /\ tok' = [tok EXCEPT !.pc = "refresh"]
    /\ req' = "refresh_post"
    /\ UNCHANGED <<reddit_channel, topicVars, credVars, cog, init, poll, dig,
                   cmd, call, pins, pollObs>>


(***************************************************************************)
(* poll_new_posts.                                                         *)
(***************************************************************************)
HeadersDefaulted == FALSE

\* "headers=self.headers" before get_tokens assigned it: AttributeError
HeadersMissing == headers = Unset

\* the request a poller record is waiting on
PollReq(p) ==
    CASE p.pc = "head" -> "head"
      [] p.pc = "get" -> "get"
      [] p.pc = "send" -> "send_new"
      [] OTHER -> "none"

\* "for subreddit in RedditConfig.subreddits" at its i-th pass: the HEAD
\* request, which reads self.headers; after the last pass, the next sleep
PollTopic(p, i) ==
    IF i > Len(subreddits) THEN [p EXCEPT !.pc = "sleep", !.i = 0]
    ELSE IF HeadersMissing
         THEN [p EXCEPT !.pc = "crashed", !.i = i, !.err = "AttributeError"]
         ELSE [p EXCEPT !.pc = "head", !.i = i]

\* fetch_posts called by a task record p: the amount check, then the first GET
FetchCall(p, amount) ==
    IF ~AmountOK(amount)
    THEN [p EXCEPT !.pc = "crashed", !.err = "ValueError"]
    ELSE IF HeadersMissing
         THEN [p EXCEPT !.pc = "crashed", !.err = "AttributeError"]
         ELSE [p EXCEPT !.pc = "get", !.f = FetchIssue(NewFetch(amount))]

\* the retry sleep of fetch_posts is over and the loop has another pass
FetchRetry(p) ==
    IF HeadersMissing
    THEN [p EXCEPT !.pc = "crashed", !.err = "AttributeError"]
    ELSE [p EXCEPT !.pc = "get", !.f = FetchIssue(FetchSlept(p.f))]

\* asyncio.sleep(RedditConfig.request_delay) is over: the first topic's HEAD
PollWake ==
    /\ poll.pc = "sleep"
    /\ poll' = PollTopic(poll, 1)
    /\ req' = PollReq(poll')
    /\ cyc' = NoCyc
    /\ UNCHANGED <<reddit_channel, topicVars, credVars, cog, init, tok, dig,
                   cmd, call, pins, sent, probed>>

\* the HEAD response with its content-length: the same as recorded skips the
\* topic; otherwise it is recorded and fetch_posts is called
PollHeadResponse(content_length) ==
    /\ poll.pc = "head"
    /\ LET subreddit == subreddits[poll.i]
           skip == SameLength(content_length, prev_lengths, subreddit)
       IN  /\ IF skip
              THEN /\ poll' = PollTopic(poll, poll.i + 1)
                   /\ UNCHANGED prev_lengths
              ELSE /\ prev_lengths' = DictPut(prev_lengths, subreddit, content_length)
                   /\ poll' = FetchCall(poll, MAX_AMOUNT)
           /\ probed' = [probed EXCEPT ![subreddit] =
                             [probe |-> content_length, called |-> ~skip]]
           /\ cyc' = [NoCyc EXCEPT !.topic = subreddit, !.probe = content_length,
                                   !.recorded = DictGet(prev_lengths, subreddit),
                                   !.W = DictGet(last_ids, subreddit)]
    /\ req' = PollReq(poll')
    /\ UNCHANGED <<reddit_channel, last_ids, credVars, cog, init, tok, dig,
                   cmd, call, pins, sent>>

\* lines 206-243 up to the first awaited send: the walk, the watermark, and
\* either the first send or, with nothing new, the next topic.  posts[0] of
\* an empty list raises IndexError.
PollProcess(posts) ==
    LET subreddit == subreddits[poll.i]
        new == Collect(posts, last_ids, subreddit)
    IN  /\ cyc' = [cyc EXCEPT !.walked = TRUE, !.page = posts,
                              !.done = posts # <<>> /\ new = <<>>]
        /\ IF posts = <<>>
           THEN /\ poll' = [poll EXCEPT !.pc = "crashed", !.f = NoFetch,
                                        !.err = "IndexError"]
                /\ UNCHANGED last_ids
           ELSE /\ last_ids' = DictPut(last_ids, subreddit, Watermark(posts))
                /\ IF new = <<>>
                   THEN poll' = PollTopic([poll EXCEPT !.f = NoFetch], poll.i + 1)
                   ELSE poll' = [poll EXCEPT !.pc = "send", !.f = NoFetch,
                                             !.new_posts = new]
        /\ req' = PollReq(poll')

\* the response to a GET of the poller's fetch_posts call
PollGetResponse(resp) ==
    /\ poll.pc = "get"
    /\ IF resp.ok
       THEN PollProcess(Slice(resp.posts, poll.f.amount))
       ELSE /\ poll' = [poll EXCEPT !.pc = "retry", !.f = FetchFailed(poll.f)]
            /\ req' = "none"
            /\ UNCHANGED <<last_ids, cyc>>
    /\ UNCHANGED <<reddit_channel, prev_lengths, credVars, cog, init, tok, dig,
                   cmd, call, pins, sent, probed>>

\* asyncio.sleep(3) of the poller's fetch_posts call is over: the next GET,
\* or after the last attempt "return list()"
PollRetryWake ==
    /\ poll.pc = "retry"
    /\ IF FetchMore(poll.f)
       THEN /\ poll' = FetchRetry(poll)
            /\ req' = PollReq(poll')
            /\ UNCHANGED <<last_ids, cyc>>
       ELSE PollProcess(<<>>)
    /\ UNCHANGED <<reddit_channel, prev_lengths, credVars, cog, init, tok, dig,
                   cmd, call, pins, sent, probed>>

\* the awaited reddit_channel.send of the first item of new_posts ends: with
\* the message delivered the loop "for data in new_posts" goes on, a rejected
\* send raises out of the task
PollSendDone(delivered) ==
    /\ poll.pc = "send"
    /\ IF delivered
       THEN LET data == Head(poll.new_posts)
                rest == Tail(poll.new_posts)
            IN  /\ cyc' = [cyc EXCEPT !.sent = Append(@, data),
                                      !.done = rest = <<>>]
                /\ sent' = [sent EXCEPT ![cyc.topic] = @ \cup {data}]
                /\ poll' = IF rest = <<>>
                           THEN PollTopic([poll EXCEPT !.new_posts = <<>>],
                                          poll.i + 1)
                           ELSE [poll EXCEPT !.new_posts = rest]
       ELSE /\ poll' = [poll EXCEPT !.pc = "crashed", !.err = "SinkError"]
            /\ UNCHANGED <<cyc, sent>>
    /\ req' = PollReq(poll')
    /\ UNCHANGED <<reddit_channel, topicVars, credVars, cog, init, tok, dig,
                   cmd, call, pins, probed>>

Startup == \E channel \in {"channel", None} : InitRedditPolling(channel)

TokenTask ==
    \/ \E ok \in BOOLEAN : GetTokensResponse(ok)
    \/ \E outcome \in {"ok", "KeyError", "ContentTypeError"} : RefreshResponse(outcome)
    \/ RefreshWake

\* the poller up to its sends, with the listings and content-lengths the
\* platform may send
PollerOn(pages, lengths) ==
    \/ PollWake
    \/ \E content_length \in lengths : PollHeadResponse(content_length)
    \/ \E resp \in Responses(pages) : PollGetResponse(resp)
    \/ PollRetryWake

Poller ==
    \/ PollerOn(Pages, ProbeVals)
    \/ \E delivered \in BOOLEAN : PollSendDone(delivered)

InitPoll == Constructed /\ pins = <<>>

\* the poller with the start-up it depends on; the first refresh stays in flight
NextPoll ==
    \/ Startup
    \/ \E ok \in BOOLEAN : GetTokensResponse(ok)
    \/ Poller

SpecPoll == InitPoll /\ [][NextPoll]_vars


(***************************************************************************)
(* poll_top_weekly_posts with send_top_posts.  A message is a number, a    *)
(* later message a larger one; the channel lists its pins newest first.    *)
(***************************************************************************)
\* the pins the channel has at start-up: n old messages, newest first
OldPins(n) == [k \in 1..n |-> n + 1 - k]

\* the message the digest task sends for its i-th topic in its w-th week
MessageOf(w, i) == MaxOldPins + (w - 1) * Len(subreddits) + i

\* subreddit.lower()
Lower(subreddit) ==
    CASE subreddit = "r/Python" -> "r/python"
      [] OTHER -> subreddit

DigReq(d) ==
    CASE d.pc = "get" -> "get"
      [] d.pc = "send" -> IF d.kind = "digest" THEN "send_digest" ELSE "send_notice"
      [] d.pc = "pins" -> "pins"
      [] d.pc = "unpin" -> "unpin"
      [] d.pc = "pin" -> "pin"
      [] OTHER -> "none"

\* "for subreddit in RedditConfig.subreddits" at its i-th pass: send_top_posts
\* up to the first GET of its fetch_posts(amount=5); after the last pass the
\* top of "while True"
DigTopic(d, i) ==
    IF i > Len(subreddits) THEN [d EXCEPT !.pc = "top", !.i = 0]
    ELSE FetchCall([d EXCEPT !.i = i, !.message = 0, !.kind = None,
                             !.local = <<>>, !.had = 0, !.unpins = 0],
                   TOP_AMOUNT)

\* send_top_posts after fetch_posts returned: "if not posts" the notice is
\* sent, otherwise the digest
DigSend(d, posts) ==
    [d EXCEPT !.pc = "send", !.f = NoFetch,
              !.kind = IF posts = <<>> THEN "notice" ELSE "digest"]

DigPinLoopLate(d) ==
    IF Len(d.local) > PIN_LIMIT THEN [d EXCEPT !.pc = "unpin"]
    ELSE [d EXCEPT !.pc = "pin"]

\* "while len(pins) >= 5: await pins[-1].unpin()", then "await message.pin()"
DigPinLoop(d) ==
    IF Len(d.local) >= PIN_LIMIT THEN [d EXCEPT !.pc = "unpin"]
    ELSE [d EXCEPT !.pc = "pin"]

Without(s, m) == SelectSeq(s, LAMBDA x : x # m)

Newest(local) == local[1]

\* pins[-1]: the channel lists its pins newest first
Oldest(local) == local[Len(local)]

\* the seconds of a day ("timedelta(days=...)", "total_seconds()")
DAY == 86400

\* now.weekday() (Monday is 0) of an instant counted in seconds from the
\* start of a Monday, and the seconds of its day that are over
Weekday(now) == (now \div DAY) % 7

SinceMidnight(now) == now % DAY

\* "monday = now + timedelta(days=7 - now.weekday())", then
\* "monday.replace(hour=0, minute=0, second=0)"
DaysAheadSame(now) == (7 - Weekday(now)) % 7

DaysAhead(now) == 7 - Weekday(now)

Monday(now) == now + DaysAhead(now) * DAY - SinceMidnight(now)

\* "until_monday = (monday - now).total_seconds()"
UntilMonday(now) == Monday(now) - now

\* the top of "while True": now is read, until_monday computed and the
\* sleep begun
DigSchedule(now) ==
    /\ dig.pc = "top"
    /\ dig' = [dig EXCEPT !.pc = "sleep", !.now = now,
                          !.until_monday = UntilMonday(now)]
    /\ req' = "none"
    /\ UNCHANGED <<reddit_channel, topicVars, credVars, cog, init, tok, poll,
                   cmd, call, pins, pollObs>>

\* asyncio.sleep(until_monday) is over
DigWake ==
    /\ dig.pc = "sleep"
    /\ dig.week < MaxWeeks
    /\ dig' = DigTopic([dig EXCEPT !.week = @ + 1], 1)
    /\ req' = DigReq(dig')
    /\ UNCHANGED <<reddit_channel, topicVars, credVars, cog, init, tok, poll,
                   cmd, call, pins, pollObs>>

DigGetResponse(resp) ==
    /\ dig.pc = "get"
    /\ dig' = IF resp.ok
              THEN DigSend(dig, Slice(resp.posts, dig.f.amount))
              ELSE [dig EXCEPT !.pc = "retry", !.f = FetchFailed(dig.f)]
    /\ req' = DigReq(dig')
    /\ UNCHANGED <<reddit_channel, topicVars, credVars, cog, init, tok, poll,
                   cmd, call, pins, pollObs>>

DigRetryWake ==
    /\ dig.pc = "retry"
    /\ dig' = IF FetchMore(dig.f) THEN FetchRetry(dig) ELSE DigSend(dig, <<>>)
    /\ req' = DigReq(dig')
    /\ UNCHANGED <<reddit_channel, topicVars, credVars, cog, init, tok, poll,
                   cmd, call, pins, pollObs>>

\* channel.send of send_top_posts ends: its message is returned and, for
\* r/python, the channel's pins are requested; a rejected send raises
DigSendDone(delivered) ==
    /\ dig.pc = "send"
    /\ dig' = IF ~delivered
              THEN [dig EXCEPT !.pc = "crashed", !.err = "SinkError"]
              ELSE LET d == [dig EXCEPT !.message = MessageOf(dig.week, dig.i)]
                   IN  IF Lower(subreddits[dig.i]) = "r/python"
                       THEN [d EXCEPT !.pc = "pins"]
                       ELSE DigTopic(d, dig.i + 1)
    /\ req' = DigReq(dig')
    /\ UNCHANGED <<reddit_channel, topicVars, credVars, cog, init, tok, poll,
                   cmd, call, pins, pollObs>>

\* "pins = await self.reddit_channel.pins()"
DigPinsResponse ==
    /\ dig.pc = "pins"
    /\ dig' = DigPinLoop([dig EXCEPT !.local = pins, !.had = Len(pins)])
    /\ req' = DigReq(dig')
    /\ UNCHANGED <<reddit_channel, topicVars, credVars, cog, init, tok, poll,
                   cmd, call, pins, pollObs>>

\* "await pins[-1].unpin()" ends, then "del pins[-1]"
DigUnpinDone(done) ==
    /\ dig.pc = "unpin"
    /\ IF done
       THEN /\ pins' = Without(pins, Oldest(dig.local))
            /\ dig' = DigPinLoop([dig EXCEPT
                                     !.local = SubSeq(@, 1, Len(@) - 1),
                                     !.unpins = @ + 1])
       ELSE /\ dig' = [dig EXCEPT !.pc = "crashed", !.err = "SinkError"]
            /\ UNCHANGED pins
    /\ req' = DigReq(dig')
    /\ UNCHANGED <<reddit_channel, topicVars, credVars, cog, init, tok, poll,
                   cmd, call, pollObs>>

\* "await message.pin()" ends
DigPinDone(done) ==
    /\ dig.pc = "pin"
    /\ IF done
       THEN /\ pins' = <<dig.message>> \o pins
            /\ dig' = DigTopic(dig, dig.i + 1)
       ELSE /\ dig' = [dig EXCEPT !.pc = "crashed", !.err = "SinkError"]
            /\ UNCHANGED pins
    /\ req' = DigReq(dig')
    /\ UNCHANGED <<reddit_channel, topicVars, credVars, cog, init, tok, poll,
                   cmd, call, pollObs>>

\* the digest task, with the listings the platform may send and the
\* instants its clock may show
DigestOn(pages, nows) ==
    \/ \E now \in nows : DigSchedule(now)
    \/ DigWake
    \/ \E resp \in Responses(pages) : DigGetResponse(resp)
    \/ DigRetryWake
    \/ \E delivered \in BOOLEAN : DigSendDone(delivered)
    \/ DigPinsResponse
    \/ \E done \in BOOLEAN : DigUnpinDone(done)
    \/ \E done \in BOOLEAN : DigPinDone(done)

(***************************************************************************)
(* top_command, daily_command, weekly_command: send_top_posts on request.  *)
(***************************************************************************)
CmdReq(c) ==
    CASE c.pc = "get" -> "get"
      [] c.pc = "send" -> "send_reply"
      [] OTHER -> "none"

\* a user invokes a command of the loaded cog, the bot being ready:
\* send_top_posts up to the first GET of fetch_posts(amount=5)
CmdInvoke ==
    /\ cog
    /\ init = "done"
    /\ cmd.pc \in {"idle", "crashed"}
    /\ cmd' = FetchCall([cmd EXCEPT !.err = None], TOP_AMOUNT)
    /\ req' = CmdReq(cmd')
    /\ UNCHANGED <<reddit_channel, topicVars, credVars, cog, init, tok, poll,
                   dig, call, pins, pollObs>>

CmdGetResponse(resp) ==
    /\ cmd.pc = "get"
    /\ cmd' = IF resp.ok
              THEN [cmd EXCEPT !.pc = "send", !.f = NoFetch]
              ELSE [cmd EXCEPT !.pc = "retry", !.f = FetchFailed(cmd.f)]
    /\ req' = CmdReq(cmd')
    /\ UNCHANGED <<reddit_channel, topicVars, credVars, cog, init, tok, poll,
                   dig, call, pins, pollObs>>

CmdRetryWake ==
    /\ cmd.pc = "retry"
    /\ cmd' = IF FetchMore(cmd.f)
              THEN FetchRetry(cmd)
              ELSE [cmd EXCEPT !.pc = "send", !.f = NoFetch]
    /\ req' = CmdReq(cmd')
    /\ UNCHANGED <<reddit_channel, topicVars, credVars, cog, init, tok, poll,
                   dig, call, pins, pollObs>>

\* channel.send of send_top_posts ends and the command returns
CmdSendDone ==
    /\ cmd.pc = "send"
    /\ cmd' = [cmd EXCEPT !.pc = "idle"]
    /\ req' = "none"
    /\ UNCHANGED <<reddit_channel, topicVars, credVars, cog, init, tok, poll,
                   dig, call, pins, pollObs>>

CommandsOn(pages) ==
    \/ CmdInvoke
    \/ \E resp \in Responses(pages) : CmdGetResponse(resp)
    \/ CmdRetryWake
    \/ CmdSendDone

(***************************************************************************)
(* The cog as a whole: every task and the commands, interleaved.  The      *)
(* listings are those of a topic with at most one post and a constant      *)
(* content-length, so each topic is fetched once and the poller finds no   *)
(* post above a watermark: it has nothing to send (SpecPoll is the poller  *)
(* on changing listings).                                                  *)
(***************************************************************************)
FewPages == {<<>>, <<ToBase36(FirstOrd)>>}

PollPages == FewPages \cup {<<ToBase36(FirstOrd + 1)>>}

Init == Constructed /\ pins \in {OldPins(0), OldPins(PIN_LIMIT)}

Next ==
    \/ Startup
    \/ TokenTask
    \/ PollerOn(PollPages, {1})
    \/ DigestOn(FewPages, {0})
    \/ CommandsOn(FewPages)

Spec == Init /\ [][Next]_vars

(***************************************************************************)
(* The token task against the clock, with the poller as the caller of      *)
(* fetch_posts.  A tick is the margin between the refresh period and the   *)
(* validity of a token; the loop wakes when its sleep is over, the token   *)
(* endpoint answers within the tick, and the backoff after a failed pass   *)
(* is shorter than a tick.                                                 *)
(***************************************************************************)
\* "@tasks.loop(hours=0.99)", in seconds
REFRESH_SECS == 3564

\* "access tokens are valid for one hour"
VALID_SECS == 3600

TICK == VALID_SECS - REFRESH_SECS

Tick ==
    /\ headers # Unset
    /\ tok.pc \in {"sleep", "crashed"}
    /\ tok.pc = "sleep" => tok.slept < REFRESH_SECS
    /\ tok.age <= VALID_SECS
    /\ tok' = [tok EXCEPT !.age = @ + TICK,
                          !.slept = IF tok.pc = "sleep" THEN @ + TICK ELSE @]
    /\ req' = "none"
    /\ UNCHANGED <<reddit_channel, topicVars, credVars, cog, init, poll, dig,
                   cmd, call, pins, pollObs>>

\* the loop's sleep of 0.99 hours is over
RefreshWakeDue ==
    /\ tok.pc = "sleep" => tok.slept >= REFRESH_SECS
    /\ RefreshWake

NextToken ==
    \/ Startup
    \/ \E ok \in BOOLEAN : GetTokensResponse(ok)
    \/ \E outcome \in {"ok", "KeyError", "ContentTypeError"} :
           RefreshResponse(outcome)
    \/ RefreshWakeDue
    \/ Tick
    \/ PollerOn(FewPages, {1})

SpecToken == InitPoll /\ [][NextToken]_vars

(***************************************************************************)
(* The digest task alone with the start-up it depends on (the first        *)
(* refresh stays in flight), from any number of pins in the channel.       *)
(***************************************************************************)
InitDigest == Constructed /\ pins \in {OldPins(n) : n \in 0..MaxOldPins}

NextDigest ==
    \/ Startup
    \/ \E ok \in BOOLEAN : GetTokensResponse(ok)
    \/ DigestOn(FewPages, {0})

SpecDigest == InitDigest /\ [][NextDigest]_vars

(***************************************************************************)
(* The digest task with a clock: "now" is any of the sampled instants of   *)
(* the days 0..MaxDay, day 0 being a Monday.                               *)
(***************************************************************************)
Instants ==
    {d * DAY + h * 3600 + mi * 60 + sec :
        d \in 0..MaxDay, h \in {0, 1, 12, 23}, mi \in {0, 1, 30, 59},
        sec \in {0, 1, 59}}

NextMonday ==
    \/ Startup
    \/ \E ok \in BOOLEAN : GetTokensResponse(ok)
    \/ DigestOn(FewPages, Instants)

InitMonday == Constructed /\ pins = OldPins(PIN_LIMIT)

SpecMonday == InitMonday /\ [][NextMonday]_vars

(***************************************************************************)
(* fetch_posts called directly with an amount of the caller's choice.      *)
(***************************************************************************)
\* the amounts tried: both sides of (0, 25]
Amounts == (-1) .. (MAX_AMOUNT + TOP_AMOUNT)

CallFetch(amount) ==
    /\ call.pc = "idle"
    /\ call' = [FetchCall(call, amount) EXCEPT !.amount = amount]
    /\ req' = IF call'.pc = "get" THEN "get" ELSE "none"
    /\ UNCHANGED <<reddit_channel, topicVars, credVars, cog, init, tok, poll,
                   dig, cmd, pins, pollObs>>

\* the response to a GET: "return posts[:amount]", or the retry sleep
CallGetResponse(resp) ==
    /\ call.pc = "get"
    /\ call' = IF resp.ok
               THEN [call EXCEPT !.pc = "returned", !.responses = @ + 1,
                                 !.success = TRUE, !.page = resp.posts,
                                 !.result = Slice(resp.posts, call.f.amount)]
               ELSE [call EXCEPT !.pc = "retry", !.responses = @ + 1,
                                 !.f = FetchFailed(call.f)]
    /\ req' = "none"
    /\ UNCHANGED <<reddit_channel, topicVars, credVars, cog, init, tok, poll,
                   dig, cmd, pins, pollObs>>

\* asyncio.sleep(3) is over: the next GET, or "return list()"
CallRetryWake ==
    /\ call.pc = "retry"
    /\ call' = IF FetchMore(call.f)
               THEN FetchRetry(call)
               ELSE [call EXCEPT !.pc = "returned", !.f = FetchSlept(call.f),
                                 !.result = <<>>]
    /\ req' = IF call'.pc = "get" THEN "get" ELSE "none"
    /\ UNCHANGED <<reddit_channel, topicVars, credVars, cog, init, tok, poll,
                   dig, cmd, pins, pollObs>>

Caller ==
    \/ \E amount \in Amounts : CallFetch(amount)
    \/ \E resp \in Responses(Pages) : CallGetResponse(resp)
    \/ CallRetryWake

NextFetch == Startup \/ TokenTask \/ Caller

SpecFetch == InitPoll /\ [][NextFetch]_vars

(***************************************************************************)
(* The new-post poller: watermark, cold start, delta, order, probe gate.   *)
(***************************************************************************)
Ords(ids) == {OrdOf(x) : x \in ids}

\* a step of the poller that delivers one more item to the sink
Delivers == Len(cyc'.sent) = Len(cyc.sent) + 1

\* C1: over any sequence of poll cycles no post of a topic, identified by
\* its ordinal, is delivered to the sink more than once.
C1_NoRepeat ==
    [][Delivers =>
         OrdOf(cyc'.sent[Len(cyc'.sent)]) \notin Ords(sent[cyc.topic])]_vars

\* C2: the watermark of a topic that has one never decreases.
C2_WatermarkMonotone ==
    [][\A t \in DOMAIN last_ids : last_ids'[t] >= last_ids[t]]_vars

\* C3: a cycle that walks a non-empty page for a topic without a watermark
\* delivers nothing and leaves the watermark at the ordinal of the first item.
C3_ColdStart ==
    (cyc.walked /\ cyc.W = NoInt /\ cyc.page # <<>>) =>
        /\ cyc.sent = <<>>
        /\ poll.new_posts = <<>>
        /\ req # "send_new"
        /\ cyc.done
        /\ cyc.topic \in DOMAIN last_ids
        /\ last_ids[cyc.topic] = OrdOf(cyc.page[1])

C3_Witness ==
    /\ cyc.walked /\ cyc.W = NoInt /\ cyc.done
    /\ cyc.probe # cyc.recorded
    /\ Len(cyc.page) >= 2

\* C4: with a watermark W and a non-empty page, the items collected for the
\* sink are exactly the page items with ordinal > W, and when the cycle for
\* the topic is through exactly those have been delivered.
C4_ExactlyNew ==
    (cyc.walked /\ cyc.W # NoInt /\ cyc.page # <<>>) =>
        LET above == {x \in Range(cyc.page) : OrdOf(x) > cyc.W}
        IN  /\ Range(cyc.sent) \cup Range(poll.new_posts) = above
            /\ cyc.done => Range(cyc.sent) = above

C4_Witness ==
    /\ cyc.walked /\ cyc.W # NoInt /\ cyc.done
    /\ Len(cyc.sent) >= 1
    /\ Len(cyc.page) > Len(cyc.sent)

\* C5: within one cycle for a topic the items are delivered oldest first, in
\* ascending ordinal order.
C5_OldestFirst ==
    \A j, k \in 1..Len(cyc.sent) :
        j < k => OrdOf(cyc.sent[j]) < OrdOf(cyc.sent[k])

\* C6: a probe equal to the length an earlier cycle recorded for the topic
\* calls no fetch_posts and leaves the topic's watermark and probe entry as
\* they were; so a topic whose probe repeats is not fetched twice in a row.
C6_UnchangedProbeSkips ==
    [][(poll.pc = "head" /\ poll' # poll) =>
         LET t == subreddits[poll.i]
         IN  /\ (t \in DOMAIN prev_lengths /\ cyc'.probe = prev_lengths[t]) =>
                   /\ poll'.pc \notin {"get", "retry", "send"}
                   /\ req' # "get"
                   /\ ~probed'[t].called
                   /\ prev_lengths' = prev_lengths
                   /\ last_ids' = last_ids
             /\ (probed[t].called /\ cyc'.probe = probed[t].probe) =>
                   ~probed'[t].called]_vars

C6_Witness ==
    /\ cyc.topic \in DOMAIN last_ids
    /\ cyc.probe = cyc.recorded
    /\ ~cyc.walked
    /\ ~probed[cyc.topic].called


(***************************************************************************)
(* fetch_posts: the retry bound and the amount check.                      *)
(***************************************************************************)
\* C7: a call all of whose responses are failures issues exactly 3 GETs, at
\* least 3 seconds apart, sleeps 3 seconds after each, and returns an empty
\* list without an error; a call whose k-th response is the first success
\* returns after exactly k GETs.
C7_ThreeAttempts ==
    /\ Len(call.f.reqAt) <= 3
    /\ (call.pc = "returned" /\ ~call.success) =>
          /\ call.responses = 3
          /\ Len(call.f.reqAt) = 3
          /\ \A k \in 1..2 : call.f.reqAt[k + 1] - call.f.reqAt[k] >= 3
          /\ call.f.slept = 3 * 3
          /\ call.result = <<>>
          /\ call.err = None
    /\ (call.pc = "returned" /\ call.success) =>
          /\ Len(call.f.reqAt) = call.responses
          /\ call.f.slept = 3 * (call.responses - 1)

C7_Witness ==
    call.pc = "returned" /\ ~call.success /\ call.responses = 3

Min(a, b) == IF a <= b THEN a ELSE b

\* C8: an amount outside (0, 25] is rejected before any request and changes
\* no state; with an amount inside and a successful response of n items the
\* call returns the first min(amount, n) items in the order delivered.
C8_AmountChecked ==
    [][/\ (call.pc = "idle" /\ call' # call
              /\ ~(0 < call'.amount /\ call'.amount <= 25)) =>
             /\ call'.pc = "crashed" /\ call'.err = "ValueError"
             /\ call'.f = NoFetch
             /\ req' = "none"
             /\ UNCHANGED <<reddit_channel, topicVars, credVars, cog>>
       /\ (call'.pc = "returned" /\ call'.success) =>
             /\ 0 < call'.amount /\ call'.amount <= 25
             /\ Len(call'.result) = Min(call'.amount, Len(call'.page))
             /\ \A k \in 1..Len(call'.result) : call'.result[k] = call'.page[k]]_vars

C8_Witness ==
    call.pc = "crashed" /\ call.err = "ValueError" /\ call.amount = 30


(***************************************************************************)
(* Start-up: the token exchange against the loops and the commands.        *)
(***************************************************************************)
\* C9: once get_tokens got a non-success response (the cog is removed), no
\* step issues a request of any kind (probe, fetch, digest, refresh), the
\* headers stay unassigned, the token task has ended, and neither loop is
\* inside a cycle.
C9_DisabledAfterBootFailure ==
    ~cog =>
        /\ req = "none"
        /\ headers = Unset
        /\ tok.pc = "crashed"
        /\ poll.pc \in {"none", "sleep", "crashed"}
        /\ dig.pc \in {"none", "top", "sleep", "crashed"}
        /\ cmd.pc \in {"idle", "crashed"}

C9_Witness ==
    ~cog /\ poll.pc = "crashed" /\ dig.pc = "crashed"

\* C10: in every interleaving get_tokens has stored the headers before a
\* loop or a fetch_posts call reads them: no task or command ends on the
\* AttributeError of an unassigned self.headers.
C10_HeadersSetBeforeUse ==
    /\ poll.err # "AttributeError"
    /\ dig.err # "AttributeError"
    /\ cmd.err # "AttributeError"

(***************************************************************************)
(* The digest task and the channel's pins.                                 *)
(***************************************************************************)
\* C11: from any number of old pins, the step that pins the message of the
\* primary topic leaves at most 5 pins, and every unpin removes exactly the
\* oldest (lowest-numbered) message that is still pinned.
C11_PinLimitOldestFirst ==
    [][/\ (dig.pc = "pin" /\ pins' # pins) => Len(pins') <= 5
       /\ (dig.pc = "unpin" /\ pins' # pins) =>
              \E m \in Range(pins) :
                  /\ \A x \in Range(pins) : m <= x
                  /\ Range(pins') = Range(pins) \ {m}
                  /\ Len(pins') = Len(pins) - 1]_vars

\* six old pins: the two oldest are gone and the new message is pinned
C11_Witness ==
    /\ Len(pins) = 5
    /\ pins[1] > MaxOldPins
    /\ Range(pins) \cap 1..MaxOldPins = 3..6

\* C15: with n pins listed, the pin of the message just sent follows exactly
\* max(0, n - 4) unpins and is the only pin of the pass; an unpin happens
\* only before that pin, while the message is not pinned.
C15_UnpinsBeforePin ==
    [][/\ (dig.pc = "pin" /\ pins' # pins) =>
              /\ dig.unpins = (IF dig.had > 4 THEN dig.had - 4 ELSE 0)
              /\ Len(pins) = dig.had - dig.unpins
              /\ pins' = <<dig.message>> \o pins
              /\ dig'.pc # "pin"
       /\ Len(pins') < Len(pins) =>
              /\ dig.pc = "unpin"
              /\ dig.message \notin Range(pins)
              /\ dig'.unpins = dig.unpins + 1
              /\ dig.unpins < dig.had - 4]_vars

\* five pins were listed, one unpin is done and the pin is requested
C15_Witness ==
    /\ dig.pc = "pin"
    /\ dig.had = 5
    /\ dig.unpins = 1
    /\ Range(pins) = 2..5

\* C16: a pass of the digest task whose fetch returned nothing sends the
\* notice and goes on to the next topic: it lists no pins, unpins nothing
\* and pins nothing.
C16_NoticeNotPinned ==
    dig.kind = "notice" => dig.pc \in {"send", "crashed"}

(***************************************************************************)
(* Failures inside the loops.                                              *)
(***************************************************************************)
\* C13: no poll cycle ends on the IndexError of posts[0]: after an empty
\* fetch the watermark is kept, nothing is sent and the loop goes on.
C13_EmptyFetchNotIndexed ==
    /\ poll.err # "IndexError"
    /\ (cyc.walked /\ cyc.page = <<>>) =>
           /\ DictGet(last_ids, cyc.topic) = cyc.W
           /\ cyc.sent = <<>>
           /\ poll.pc # "crashed"

\* C14: neither loop ends on a rejected send, pin or unpin.
C14_SinkFailureNotFatal ==
    /\ poll.err # "SinkError"
    /\ dig.err # "SinkError"

\* C17: after the walk of a cycle that fetched a non-empty page,
\* last_ids[topic] is the ordinal of the first item of the page, whatever
\* the walk collected.
C17_WatermarkIsFirstItem ==
    (cyc.walked /\ cyc.page # <<>>) =>
        DictGet(last_ids, cyc.topic) = OrdOf(cyc.page[1])

\* a cycle over a page of several items of which the walk collected none
C17_Witness ==
    /\ cyc.walked
    /\ cyc.done
    /\ Len(cyc.page) > 1
    /\ cyc.W # NoInt
    /\ cyc.sent = <<>>
    /\ DictGet(last_ids, cyc.topic) = OrdOf(cyc.page[1])

(***************************************************************************)
(* The digest task's clock.                                                *)
(***************************************************************************)
\* C18: whenever the digest task begins a sleep, the delay computed from
\* the instant it read is more than 0 and at most 604800 seconds and ends at
\* a Monday 00:00:00, hence at the first one after that instant; the sleep
\* is begun only at the top of the loop, the step that ends it starts the
\* pass over the topics, and the top is reached again only from the last
\* topic.
C18_SleepsUntilNextMonday ==
    [][/\ (dig'.pc = "sleep" /\ dig.pc # "sleep") =>
              /\ dig.pc = "top"
              /\ dig'.until_monday > 0
              /\ dig'.until_monday <= 604800
              /\ (dig'.now + dig'.until_monday) % 604800 = 0
       /\ (dig.pc = "sleep" /\ dig' # dig) =>
              /\ dig'.i = 1
              /\ dig'.week = dig.week + 1
       /\ (dig'.pc = "top" /\ dig.pc # "top") =>
              dig.pc = "none" \/ dig.i = Len(subreddits)]_vars

\* the clock showed exactly Monday 00:00:00 and the task sleeps a whole week
C18_Witness ==
    /\ dig.pc = "sleep"
    /\ dig.now % 604800 = 0
    /\ dig.until_monday = 604800

(***************************************************************************)
(* The credential.                                                         *)
(***************************************************************************)
\* C12: no GET of fetch_posts is issued while the access token in the
\* headers is older than its validity of 60 minutes.
C12_TokenValidAtFetch ==
    req = "get" => tok.age <= VALID_SECS

\* C19: a refresh whose response brings no new access token leaves the
\* stored token and the headers as they were and does not end the token
\* task: the loop goes on to its next pass.
C19_FailedRefreshNotFatal ==
    [][(tok.pc = "refresh" /\ tok' # tok /\ access_token' = access_token) =>
           /\ UNCHANGED credVars
           /\ tok'.pc \in {"sleep", "backoff"}]_vars

\* C20: the credential changes only in a step of the token task; an entry
\* of prev_lengths or last_ids changes only in a step of the poller at that
\* entry's topic; no step of the poller, of the digest task, of a command or
\* of a direct fetch_posts call changes the credential, and none of the last
\* three changes prev_lengths or last_ids.
C20_Frames ==
    [][/\ credVars' # credVars =>
              tok.pc \in {"get_tokens", "refresh"} /\ tok'.pc # tok.pc
       /\ \A t \in Topics :
              (\/ DictGet(prev_lengths', t) # DictGet(prev_lengths, t)
               \/ DictGet(last_ids', t) # DictGet(last_ids, t)) =>
                  /\ poll.pc \in {"head", "get", "retry"}
                  /\ poll.i > 0
                  /\ t = subreddits[poll.i]
       /\ poll' # poll => UNCHANGED credVars
       /\ (dig' # dig \/ cmd' # cmd \/ call' # call) =>
              UNCHANGED <<topicVars, credVars>>]_vars

\* the second topic was probed and fetched after the first, under a
\* refreshed token, and each topic has its own watermark
C20_Witness ==
    /\ DOMAIN last_ids = Topics
    /\ DOMAIN prev_lengths = Topics
    /\ last_ids[subreddits[1]] # last_ids[subreddits[2]]
    /\ access_token > 1
    /\ dig.week > 0

====
